---------------------------- MODULE Spec2Model ----------------------------
(***************************************************************************)
(* Model of tests/fix.py: finalize_retry_fix() patches the text of one     *)
(* test file in place.  The file system, the text codec of                 *)
(* Path.read_text / Path.write_text (UTF-8, universal newlines on read,    *)
(* os.linesep on write) and str.replace are modelled at the level of       *)
(* single bytes / characters.                                              *)
(***************************************************************************)
EXTENDS Naturals, Sequences, FiniteSets

VARIABLES
    fs,           \* the file system: path -> file state
    platform,     \* "posix" or "windows": decides os.linesep and errno mapping
    pc,           \* the statement finalize_retry_fix() is about to execute
    content,      \* local `content`  (line 7)
    new_content,  \* local `new_content` (lines 11-17)
    err,          \* the exception that left finalize_retry_fix(), or "none"
    stdout,       \* what the run printed
    log,          \* the file-system and console calls of this run, in order
    snapshots,    \* the file system as it was when each run was started
    run,          \* number of the current invocation of the script
    envSteps      \* number of steps another actor has taken on the file system

vars == <<fs, platform, pc, content, new_content, err, stdout, log, snapshots,
          run, envSteps>>

\* the file system as it was when the current run was started
before == snapshots[run]

---------------------------------------------------------------------------
(* Bounds of the model *)

\* an initial file text is a concatenation of at most MaxPieces fragments
MaxPieces == 2

\* the script is invoked at most MaxRuns times in a row
MaxRuns == 2

\* another actor touches the file at most MaxEnvSteps times (SpecEnv only)
MaxEnvSteps == 1

---------------------------------------------------------------------------
(* Characters.  A text is a sequence of one-character strings. *)

CR == "\r"
LF == "\n"
\* a byte that is not valid UTF-8 anywhere in a file
BadByte == "0xFF"

RetryPrefix == <<"o","p","t","s",".","r","e","t","r","y"," ","="," ">>

Old7 == RetryPrefix \o <<"7",";">>
Old6 == RetryPrefix \o <<"6",";">>
Old5 == RetryPrefix \o <<"5",";">>
New10 == RetryPrefix \o <<"1","0",";">>

Ident_concurrent == <<"_","c","o","n","c","u","r","r","e","n","t">>
Ident_max_seen == <<"_","m","a","x","_","s","e","e","n">>
LetKw == <<"l","e","t"," ">>
EqSuffix == <<" ","=">>

OldConcurrent == LetKw \o Ident_concurrent \o EqSuffix
NewConcurrent == LetKw \o Tail(Ident_concurrent) \o EqSuffix
OldMaxSeen == LetKw \o Ident_max_seen \o EqSuffix
NewMaxSeen == LetKw \o Tail(Ident_max_seen) \o EqSuffix

\* the success message of line 20 (after its check-mark prefix)
Message == "Module logic bypass: Retry increased to 10 to ensure success window is hit."

---------------------------------------------------------------------------
(* str.replace(old, new): every non-overlapping occurrence, left to right *)

StartsWith(s, p) == Len(s) >= Len(p) /\ SubSeq(s, 1, Len(p)) = p

\* (mutant) str.replace(old, new, 1): the first occurrence only
RECURSIVE ReplaceFirstOnly(_, _, _)
ReplaceFirstOnly(s, old, new) ==
    IF Len(s) < Len(old) THEN s
    ELSE IF StartsWith(s, old)
         THEN new \o SubSeq(s, Len(old) + 1, Len(s))
         ELSE <<Head(s)>> \o ReplaceFirstOnly(Tail(s), old, new)

RECURSIVE Replace(_, _, _)
Replace(s, old, new) ==
    IF Len(s) < Len(old) THEN s
    ELSE IF StartsWith(s, old)
         THEN new \o Replace(SubSeq(s, Len(old) + 1, Len(s)), old, new)
         ELSE <<Head(s)>> \o Replace(Tail(s), old, new)

\* (mutant) line 11 with the replacement mistyped as another recognized literal
Subst7_typo == [old |-> Old7, new |-> Old6]
\* the five replace calls, one per line of the source
Subst7 == [old |-> Old7, new |-> New10]
Subst6 == [old |-> Old6, new |-> New10]
Subst5 == [old |-> Old5, new |-> New10]
SubstConcurrent == [old |-> OldConcurrent, new |-> NewConcurrent]
SubstMaxSeen == [old |-> OldMaxSeen, new |-> NewMaxSeen]

\* in the order of the source
Substitutions == <<Subst7, Subst6, Subst5, SubstConcurrent, SubstMaxSeen>>

Apply(s, k) == Replace(s, Substitutions[k].old, Substitutions[k].new)

\* the replacements applied one after the other in the order `order`
RECURSIVE ApplyInOrder(_, _)
ApplyInOrder(s, order) ==
    IF order = <<>> THEN s
    ELSE ApplyInOrder(Apply(s, Head(order)), Tail(order))

\* lines 11, 12, 13, 16, 17
SourceOrder == <<1, 2, 3, 4, 5>>

---------------------------------------------------------------------------
(* The text codec of read_text / write_text *)

\* (mutant) errors="ignore": no byte is refused
DecodableLenient(bytes) == TRUE

\* bytes.decode("utf-8") raises UnicodeDecodeError on an invalid byte
Decodable(bytes) == \A i \in 1..Len(bytes) : bytes[i] # BadByte

\* (mutant) newline="" on read: line terminators are not translated
DecodeTextRaw(bytes) == bytes

\* text mode, newline=None on read: "\r\n" and "\r" both become "\n"
RECURSIVE DecodeText(_)
DecodeText(bytes) ==
    IF bytes = <<>> THEN <<>>
    ELSE IF bytes[1] = CR
         THEN IF Len(bytes) >= 2 /\ bytes[2] = LF
              THEN <<LF>> \o DecodeText(SubSeq(bytes, 3, Len(bytes)))
              ELSE <<LF>> \o DecodeText(Tail(bytes))
         ELSE <<bytes[1]>> \o DecodeText(Tail(bytes))

\* os.linesep
LineSep(os) == IF os = "windows" THEN <<CR, LF>> ELSE <<LF>>

\* text mode, newline=None on write: "\n" becomes os.linesep
RECURSIVE EncodeText(_, _)
EncodeText(text, os) ==
    IF text = <<>> THEN <<>>
    ELSE (IF text[1] = LF THEN LineSep(os) ELSE <<text[1]>>)
         \o EncodeText(Tail(text), os)

---------------------------------------------------------------------------
(* The file system *)

\* Path(r"tests\test_ky_http.rs")
test_path == "tests\\test_ky_http.rs"
\* some other file of the working directory
other_path == "Cargo.toml"
Paths == {test_path, other_path}

Absent == [kind |-> "absent", bytes |-> <<>>, readable |-> FALSE, writable |-> FALSE]
Directory == [kind |-> "dir", bytes |-> <<>>, readable |-> TRUE, writable |-> TRUE]
File(b, r, w) == [kind |-> "file", bytes |-> b, readable |-> r, writable |-> w]

\* (mutant) the existence check always succeeding
PathExistsAlways(f) == TRUE

\* Path.exists(): true of a file and of a directory
PathExists(f) == f.kind # "absent"

\* the exception open(path, "r").read() ends with, or "none"
ReadError(f, os) ==
    IF f.kind = "absent" THEN "FileNotFoundError"
    ELSE IF f.kind = "dir"
         THEN (IF os = "windows" THEN "PermissionError" ELSE "IsADirectoryError")
    ELSE IF ~f.readable THEN "PermissionError"
    ELSE IF ~Decodable(f.bytes) THEN "UnicodeDecodeError"
    ELSE "none"

\* the exception open(path, "w") ends with, or "none"
WriteError(f, os) ==
    IF f.kind = "dir"
    THEN (IF os = "windows" THEN "PermissionError" ELSE "IsADirectoryError")
    ELSE IF f.kind = "file" /\ ~f.writable THEN "PermissionError"
    ELSE "none"

\* the file after open(path, "w").write(text): truncated and rewritten in
\* place; a missing file is created with default permissions
Written(f, text, os) ==
    IF f.kind = "file" THEN File(EncodeText(text, os), f.readable, f.writable)
    ELSE File(EncodeText(text, os), TRUE, TRUE)

---------------------------------------------------------------------------
(* Initial states *)

Fragments ==
    { Old7, Old6, Old5, OldConcurrent, OldMaxSeen,
      New10, RetryPrefix, <<"7", ";">>, LetKw \o <<"_">>, Ident_concurrent,
      Ident_max_seen,
      <<CR, LF>>, <<LF>>, <<CR>>, <<BadByte>> }

RECURSIVE Texts(_)
Texts(n) ==
    IF n = 0 THEN {<<>>}
    ELSE LET shorter == Texts(n - 1)
         IN shorter \cup {t \o f : t \in shorter, f \in Fragments}

FileStates ==
    {Absent, Directory}
    \cup {File(b, r, w) : b \in Texts(MaxPieces), r \in BOOLEAN, w \in BOOLEAN}

Unset == <<"unset">>

Call(op, path) == [op |-> op, path |-> path]

Init ==
    /\ \E f \in FileStates :
          fs = [p \in Paths |-> IF p = test_path THEN f ELSE File(<<"x">>, TRUE, TRUE)]
    /\ platform \in {"posix", "windows"}
    /\ pc = "exists"
    /\ content = Unset
    /\ new_content = Unset
    /\ err = "none"
    /\ stdout = <<>>
    /\ log = <<>>
    /\ snapshots = <<fs>>
    /\ run = 1
    /\ envSteps = 0

---------------------------------------------------------------------------
(* finalize_retry_fix(), one action per statement *)

\* (mutant) the print dedented out of the `if`
ExistsPrintOutsideIf ==
    /\ pc = "exists"
    /\ log' = Append(log, Call("exists", test_path))
    /\ pc' = IF PathExists(fs[test_path]) THEN "read_text" ELSE "print"
    /\ UNCHANGED <<fs, platform, content, new_content, err, stdout, snapshots,
                   run, envSteps>>

\* line 6: if test_path.exists():
Exists ==
    /\ pc = "exists"
    /\ log' = Append(log, Call("exists", test_path))
    /\ pc' = IF PathExists(fs[test_path]) THEN "read_text" ELSE "done"
    /\ UNCHANGED <<fs, platform, content, new_content, err, stdout, snapshots,
                   run, envSteps>>

\* line 7: content = test_path.read_text(encoding="utf-8")
ReadText ==
    /\ pc = "read_text"
    /\ log' = Append(log, Call("read", test_path))
    /\ LET e == ReadError(fs[test_path], platform)
       IN IF e = "none"
          THEN /\ content' = DecodeText(fs[test_path].bytes)
               /\ pc' = "replace7"
               /\ err' = err
          ELSE /\ content' = content
               /\ pc' = "done"
               /\ err' = e
    /\ UNCHANGED <<fs, platform, new_content, stdout, snapshots, run, envSteps>>

\* line 11: new_content = content.replace("opts.retry = 7;", "opts.retry = 10;")
Replace7 ==
    /\ pc = "replace7"
    /\ new_content' = Replace(content, Subst7.old, Subst7.new)
    /\ pc' = "replace6"
    /\ UNCHANGED <<fs, platform, content, err, stdout, log, snapshots,
                   run, envSteps>>

\* line 12: new_content = new_content.replace("opts.retry = 6;", "opts.retry = 10;")
Replace6 ==
    /\ pc = "replace6"
    /\ new_content' = Replace(new_content, Subst6.old, Subst6.new)
    /\ pc' = "replace5"
    /\ UNCHANGED <<fs, platform, content, err, stdout, log, snapshots,
                   run, envSteps>>

\* line 13: new_content = new_content.replace("opts.retry = 5;", "opts.retry = 10;")
Replace5 ==
    /\ pc = "replace5"
    /\ new_content' = Replace(new_content, Subst5.old, Subst5.new)
    /\ pc' = "replace_concurrent"
    /\ UNCHANGED <<fs, platform, content, err, stdout, log, snapshots,
                   run, envSteps>>

\* line 16: new_content = new_content.replace("let _concurrent =", "let concurrent =")
ReplaceConcurrent ==
    /\ pc = "replace_concurrent"
    /\ new_content' = Replace(new_content, SubstConcurrent.old, SubstConcurrent.new)
    /\ pc' = "replace_max_seen"
    /\ UNCHANGED <<fs, platform, content, err, stdout, log, snapshots,
                   run, envSteps>>

\* line 17: new_content = new_content.replace("let _max_seen =", "let max_seen =")
ReplaceMaxSeen ==
    /\ pc = "replace_max_seen"
    /\ new_content' = Replace(new_content, SubstMaxSeen.old, SubstMaxSeen.new)
    /\ pc' = "write_text"
    /\ UNCHANGED <<fs, platform, content, err, stdout, log, snapshots,
                   run, envSteps>>

\* (mutant) the write skipped when the replacements changed nothing
WriteTextIfChanged ==
    /\ pc = "write_text"
    /\ IF new_content = content
       THEN /\ pc' = "print"
            /\ UNCHANGED <<fs, log, err>>
       ELSE /\ log' = Append(log, Call("write", test_path))
            /\ LET e == WriteError(fs[test_path], platform)
               IN IF e = "none"
                  THEN /\ fs' = [fs EXCEPT ![test_path] = Written(@, new_content, platform)]
                       /\ pc' = "print"
                       /\ err' = err
                  ELSE /\ fs' = fs
                       /\ pc' = "done"
                       /\ err' = e
    /\ UNCHANGED <<platform, content, new_content, stdout, snapshots, run, envSteps>>

\* (mutant) the result written beside the target instead of over it
WriteTextToOtherPath ==
    /\ pc = "write_text"
    /\ log' = Append(log, Call("write", other_path))
    /\ LET e == WriteError(fs[other_path], platform)
       IN IF e = "none"
          THEN /\ fs' = [fs EXCEPT ![other_path] = Written(@, new_content, platform)]
               /\ pc' = "print"
               /\ err' = err
          ELSE /\ fs' = fs
               /\ pc' = "done"
               /\ err' = e
    /\ UNCHANGED <<platform, content, new_content, stdout, snapshots, run, envSteps>>

\* (mutant) the file looked at again before the write: a file that is gone
\* is left alone, a file that changed is patched from its present text
WriteTextRecheck ==
    /\ pc = "write_text"
    /\ IF ~PathExists(fs[test_path])
       THEN /\ pc' = "done"
            /\ UNCHANGED <<fs, log, err>>
       ELSE /\ log' = Append(log, Call("write", test_path))
            /\ fs' = [fs EXCEPT ![test_path] =
                         Written(@, ApplyInOrder(DecodeText(@.bytes), SourceOrder),
                                 platform)]
            /\ pc' = "print"
            /\ err' = err
    /\ UNCHANGED <<platform, content, new_content, stdout, snapshots, run, envSteps>>

\* line 19: test_path.write_text(new_content, encoding="utf-8")
WriteText ==
    /\ pc = "write_text"
    /\ log' = Append(log, Call("write", test_path))
    /\ LET e == WriteError(fs[test_path], platform)
       IN IF e = "none"
          THEN /\ fs' = [fs EXCEPT ![test_path] = Written(@, new_content, platform)]
               /\ pc' = "print"
               /\ err' = err
          ELSE /\ fs' = fs
               /\ pc' = "done"
               /\ err' = e
    /\ UNCHANGED <<platform, content, new_content, stdout, snapshots, run, envSteps>>

\* line 20: print("... Retry increased to 10 ...")
PrintMessage ==
    /\ pc = "print"
    /\ stdout' = Append(stdout, Message)
    /\ log' = Append(log, Call("print", "stdout"))
    /\ pc' = "done"
    /\ UNCHANGED <<fs, platform, content, new_content, err, snapshots, run,
                   envSteps>>

\* lines 22-23: the script is run again
Rerun ==
    /\ pc = "done"
    /\ run < MaxRuns
    /\ run' = run + 1
    /\ pc' = "exists"
    /\ content' = Unset
    /\ new_content' = Unset
    /\ err' = "none"
    /\ stdout' = <<>>
    /\ log' = <<>>
    /\ snapshots' = Append(snapshots, fs)
    /\ UNCHANGED <<fs, platform, envSteps>>

Next ==
    \/ Exists
    \/ ReadText
    \/ Replace7
    \/ Replace6
    \/ Replace5
    \/ ReplaceConcurrent
    \/ ReplaceMaxSeen
    \/ WriteText
    \/ PrintMessage
    \/ Rerun

Spec == Init /\ [][Next]_vars

---------------------------------------------------------------------------
(* The replacement chain alone (lines 11-17), started in the states the   *)
(* run is in when read_text has just returned a text.                     *)

ReadableTexts == {DecodeText(b) : b \in {t \in Texts(MaxPieces) : Decodable(t)}}

InitText ==
    /\ \E c \in ReadableTexts :
          /\ fs = [p \in Paths |-> IF p = test_path THEN File(c, TRUE, TRUE)
                                    ELSE File(<<"x">>, TRUE, TRUE)]
          /\ content = c
    /\ platform = "posix"
    /\ pc = "replace7"
    /\ new_content = Unset
    /\ err = "none"
    /\ stdout = <<>>
    /\ log = <<Call("exists", test_path), Call("read", test_path)>>
    /\ snapshots = <<fs>>
    /\ run = 1
    /\ envSteps = 0

NextText ==
    \/ Replace7
    \/ Replace6
    \/ Replace5
    \/ ReplaceConcurrent
    \/ ReplaceMaxSeen

SpecText == InitText /\ [][NextText]_vars

---------------------------------------------------------------------------
(* Another actor on the same file system.  The script takes no lock, so  *)
(* its statements interleave freely with the actor's steps.               *)

EnvTexts == { Old7 \o <<LF>>, OldConcurrent \o <<LF>>, <<"x", LF>> }

InitEnv ==
    /\ \E f \in {Absent} \cup {File(b, TRUE, TRUE) : b \in EnvTexts} :
          fs = [p \in Paths |-> IF p = test_path THEN f ELSE File(<<"x">>, TRUE, TRUE)]
    /\ platform \in {"posix", "windows"}
    /\ pc = "exists"
    /\ content = Unset
    /\ new_content = Unset
    /\ err = "none"
    /\ stdout = <<>>
    /\ log = <<>>
    /\ snapshots = <<fs>>
    /\ run = 1
    /\ envSteps = 0

\* the actor rewrites (or creates) the file
EnvModify ==
    /\ envSteps < MaxEnvSteps
    /\ \E b \in EnvTexts :
          /\ fs[test_path] # File(b, TRUE, TRUE)
          /\ fs' = [fs EXCEPT ![test_path] = File(b, TRUE, TRUE)]
    /\ envSteps' = envSteps + 1
    /\ log' = Append(log, Call("env_modify", test_path))
    /\ UNCHANGED <<platform, pc, content, new_content, err, stdout, snapshots, run>>

\* the actor removes the file
EnvRemove ==
    /\ envSteps < MaxEnvSteps
    /\ fs[test_path].kind = "file"
    /\ fs' = [fs EXCEPT ![test_path] = Absent]
    /\ envSteps' = envSteps + 1
    /\ log' = Append(log, Call("env_remove", test_path))
    /\ UNCHANGED <<platform, pc, content, new_content, err, stdout, snapshots, run>>

NextEnv ==
    \/ Next
    \/ EnvModify
    \/ EnvRemove

SpecEnv == InitEnv /\ [][NextEnv]_vars

---------------------------------------------------------------------------
(* Vocabulary of the properties *)

Done == pc = "done"

\* the calls of the script itself, by name, in the order they were made
IsProgramCall(c) == c.op \in {"exists", "read", "write", "print"}
ProgramOps ==
    LET calls == SelectSeq(log, IsProgramCall)
    IN [i \in 1..Len(calls) |-> calls[i].op]

FullCycle == <<"exists", "read", "write", "print">>

IsPrefix(a, b) == Len(a) <= Len(b) /\ SubSeq(b, 1, Len(a)) = a

NumCalls(op) == Cardinality({i \in 1..Len(log) : log[i].op = op})

\* the write was made and did not raise
WriteCompleted == NumCalls("write") >= 1 /\ pc \in {"print", "done"} /\ err = "none"

OccursAt(s, lit, i) ==
    /\ i + Len(lit) <= Len(s) + 1
    /\ SubSeq(s, i, i + Len(lit) - 1) = lit

Count(s, lit) == Cardinality({i \in 1..Len(s) : OccursAt(s, lit, i)})

Occurs(s, lit) == \E i \in 1..Len(s) : OccursAt(s, lit, i)

\* the five recognized literals and what each is to become
Recognized == {Old7, Old6, Old5, OldConcurrent, OldMaxSeen}

Replacement(lit) ==
    IF lit \in {Old7, Old6, Old5} THEN New10
    ELSE IF lit = OldConcurrent THEN NewConcurrent
    ELSE NewMaxSeen

\* the target file as the run found it: a readable, writable file of valid UTF-8
PlainFile(f) == f.kind = "file" /\ f.readable /\ f.writable /\ Decodable(f.bytes)

\* the bytes of a file with every recognized literal replaced where it stands
\* and every other byte kept
RECURSIVE Patched(_)
Patched(b) ==
    IF b = <<>> THEN <<>>
    ELSE IF \E lit \in Recognized : StartsWith(b, lit)
         THEN LET lit == CHOOSE l \in Recognized : StartsWith(b, l)
              IN Replacement(lit) \o Patched(SubSeq(b, Len(lit) + 1, Len(b)))
         ELSE <<Head(b)>> \o Patched(Tail(b))

\* every order in which the five replacements can be applied
Orders == {p \in [1..Len(Substitutions) -> 1..Len(Substitutions)] :
              \A i, j \in 1..Len(Substitutions) : p[i] = p[j] => i = j}

---------------------------------------------------------------------------
(* C1: when the target file holds at least one recognized literal, the    *)
(* file after the run has the replacement at each place a literal stood,  *)
(* and every other byte (line terminators included) is the byte that was  *)
(* there before the run.                                                  *)
C1_PatchedInPlace ==
    (Done /\ PlainFile(before[test_path])
          /\ \E lit \in Recognized : Occurs(before[test_path].bytes, lit))
    => /\ err = "none"
       /\ fs[test_path].bytes = Patched(before[test_path].bytes)

(* C2: when the target path does not exist, the run makes the existence   *)
(* check and nothing else: no read, no write, no print, no error, and the *)
(* file system is what it was before the run.                             *)
C2_AbsentUntouched ==
    (Done /\ before[test_path].kind = "absent")
    => /\ log = <<Call("exists", test_path)>>
       /\ stdout = <<>>
       /\ err = "none"
       /\ fs = before

C2_WitnessAbsent == Done /\ before[test_path].kind = "absent" /\ Len(log) = 1

(* C3 as stated: whenever the target path exists, whatever it holds, the  *)
(* run ends with no error.                                                *)
C3_OnlyAbsenceFails ==
    (Done /\ before[test_path].kind # "absent") => err = "none"

(* C3 as amended: absence is the only condition the script handles.  A    *)
(* run ends with the exception of read_text when the path is a directory, *)
(* an unreadable file or a file that is not valid UTF-8, with the         *)
(* exception of write_text when the file was read but cannot be written,  *)
(* and with no error for an absent path or a readable, writable file of   *)
(* valid UTF-8.                                                           *)
C3_ErrorsSurface ==
    Done =>
      LET f == before[test_path]
      IN err = IF f.kind = "absent" THEN "none"
               ELSE IF f.kind = "dir"
                    THEN (IF platform = "windows" THEN "PermissionError"
                          ELSE "IsADirectoryError")
               ELSE IF ~f.readable THEN "PermissionError"
               ELSE IF \E i \in 1..Len(f.bytes) : f.bytes[i] = BadByte
                    THEN "UnicodeDecodeError"
               ELSE IF ~f.writable THEN "PermissionError"
               ELSE "none"

C3_WitnessDecodeError ==
    Done /\ err = "UnicodeDecodeError" /\ ProgramOps = <<"exists", "read">>

(* C4 as stated: whenever the target path exists, the run overwrites the  *)
(* file exactly once.                                                     *)
C4_WritesWheneverExists ==
    (Done /\ before[test_path].kind # "absent")
    => (NumCalls("write") = 1 /\ WriteCompleted)

(* C4 as amended: whenever the target path exists and read_text returns,  *)
(* the run calls write_text exactly once, whether or not a literal        *)
(* occurred (the write is never conditioned on the text having changed),  *)
(* and the file is overwritten unless that write raises; when read_text   *)
(* raises, and when the path is absent, nothing is written.               *)
C4_WriteUnconditional ==
    Done =>
      LET f == before[test_path]
          readable == f.kind = "file" /\ f.readable /\ Decodable(f.bytes)
      IN /\ NumCalls("write") = (IF readable THEN 1 ELSE 0)
         /\ WriteCompleted <=> (readable /\ f.writable)
         /\ ~WriteCompleted => fs = before

C4_WitnessUnchangedTextWritten ==
    /\ Done
    /\ WriteCompleted
    /\ new_content = content
    /\ \A lit \in Recognized : ~Occurs(before[test_path].bytes, lit)

(* C5: a run reads, writes, creates and deletes no file but the one at    *)
(* the hard-coded path, and every other file is after the run what it was *)
(* before it.                                                             *)
C5_OnlyTargetTouched ==
    /\ \A i \in 1..Len(log) :
          log[i].op \in {"exists", "read", "write"} => log[i].path = test_path
    /\ \A p \in Paths \ {test_path} : fs[p] = before[p]

C5_WitnessTargetRewritten ==
    Done /\ WriteCompleted /\ fs[test_path] # before[test_path]

(* C6: after a completed run on an existing file, the file holds no       *)
(* occurrence of any of the five recognized literals; every occurrence    *)
(* (not only the first) became its replacement, and no replacement made a *)
(* new occurrence of a recognized literal.                                *)
C6_NoLiteralRemains ==
    (Done /\ WriteCompleted) =>
      LET old == before[test_path].bytes
          new == fs[test_path].bytes
      IN /\ \A lit \in Recognized : ~Occurs(new, lit)
         /\ Count(new, New10) =
               Count(old, New10) + Count(old, Old7) + Count(old, Old6)
                                 + Count(old, Old5)
         /\ Count(new, NewConcurrent) =
               Count(old, NewConcurrent) + Count(old, OldConcurrent)
         /\ Count(new, NewMaxSeen) =
               Count(old, NewMaxSeen) + Count(old, OldMaxSeen)

C6_WitnessSeveralOccurrences ==
    /\ Done
    /\ WriteCompleted
    /\ \E lit \in Recognized : Count(before[test_path].bytes, lit) >= 2

(* C7: a run makes at most one existence check, one read and one write,   *)
(* in that order; what it writes is computed from what its one read       *)
(* returned and from nothing else.  A change of the file by another actor *)
(* after the read is overwritten unseen; a removal before the read ends   *)
(* the run with FileNotFoundError, a removal after it has the write       *)
(* create the file again.                                                 *)
C7_OneCycleNoRecheck ==
    /\ [](IsPrefix(ProgramOps, FullCycle))
    /\ [][ /\ (pc = "read_text" /\ pc' # "read_text") =>
                 IF fs[test_path].kind = "absent"
                 THEN err' = "FileNotFoundError" /\ pc' = "done" /\ fs' = fs
                 ELSE content' = DecodeText(fs[test_path].bytes) /\ fs' = fs
           /\ (pc = "write_text" /\ pc' # "write_text") =>
                 /\ fs'[test_path] =
                       File(EncodeText(ApplyInOrder(content, SourceOrder), platform),
                            TRUE, TRUE)
                 /\ err' = "none"
                 /\ pc' = "print"
         ]_vars

C7_WitnessChangeOverwritten ==
    /\ Done
    /\ WriteCompleted
    /\ \E i, j, k \in 1..Len(log) :
          /\ i < j /\ j < k
          /\ log[i].op = "read"
          /\ log[j].op = "env_modify"
          /\ log[k].op = "write"
    /\ fs[test_path].bytes = EncodeText(ApplyInOrder(content, SourceOrder), platform)

(* C8: the content of the target file after two consecutive runs is its   *)
(* content after one run.                                                 *)
C8_Idempotent ==
    (Done /\ run >= 2) => fs[test_path] = before[test_path]

C8_WitnessSecondRunAfterChange ==
    /\ Done
    /\ run = 2
    /\ WriteCompleted
    /\ snapshots[1][test_path] # snapshots[2][test_path]

(* C9: the five replacements applied in any order give the text that the  *)
(* order of the source (7, 6, 5, _concurrent, _max_seen) gives.           *)
C9_OrderIrrelevant ==
    pc = "write_text" =>
       \A order \in Orders : ApplyInOrder(content, order) = new_content

C9_WitnessTwoLiterals ==
    /\ pc = "write_text"
    /\ Occurs(content, Old6)
    /\ Occurs(content, OldConcurrent)
    /\ new_content # content

=============================================================================
